---- MODULE Spec2Model ----
(***************************************************************************)
(* A model of go-thumbhash: the image codec of src/thumbhash.go (Encode,   *)
(* Decode) and the Hash structure of src/unnamed/part_000 (Hash.Encode,    *)
(* Hash.Decode, Hash.Size, Hash.coefficients).                             *)
(*                                                                         *)
(* Numbers.  A float64 field of a Hash is modelled as an exact rational    *)
(* <<n, d>> with d > 0.  The image analysis of Encode (the colour          *)
(* conversion and the cosine transform) is computed in fixed point, in     *)
(* units of 1/Unit, with a cosine table rounded to that unit.  Go's int    *)
(* is wide enough for every header word, so integers are unbounded here;   *)
(* byte(x) keeps the low eight bits.                                       *)
(*                                                                         *)
(* Arrays.  Go slices are indexed from 0, TLA+ sequences from 1: the byte  *)
(* hash[i] of the source is hash[i + 1] here.                              *)
(***************************************************************************)
EXTENDS Integers, Sequences, FiniteSets, TLC

VARIABLES
    pc,     \* position of the calling program: "start", "encoded", "decoded"
    img,    \* the image last given to Encode
    hash,   \* the byte array at hand: Encode's result, Decode's argument
    h,      \* the receiver Hash of Hash.Encode, Hash.Decode, Hash.Size
    enc,    \* what the last encoding call did
    dec,    \* what the last decoding call did
    size,   \* the last result of Hash.Size
    grid    \* the channel loops run over one frequency grid

vars == <<pc, img, hash, h, enc, dec, size, grid>>

(***************************************************************************)
(* Bounds of the model.                                                    *)
(***************************************************************************)
\* Pixel values before clamping are sampled in steps of 1/(2*MaxStep).
MaxStep == 4

\* The largest image width and height given to Encode.
MaxDim == 7
\* The largest base size given to Hash.Size.
MaxBase == 6
\* The largest grid dimension the channel loops are run over on their own.
MaxGrid == 7
\* The most bytes cut from the end of an encoder's output.
MaxCut == 2

(***************************************************************************)
(* Integer helpers: Go's |, &, <<, >> and byte() on int.                   *)
(***************************************************************************)
\* Bit k of a | b and of a & b, as the value 2^k or 0.  The operands of |
\* and & in the codec are bytes and uint32 header words: never negative.
OrBit(a, b, k) ==
    IF (a \div 2^k) % 2 = 1 \/ (b \div 2^k) % 2 = 1 THEN 2^k ELSE 0

AndBit(a, b, k) ==
    IF (a \div 2^k) % 2 = 1 /\ (b \div 2^k) % 2 = 1 THEN 2^k ELSE 0

\* a | b and a & b of two bytes.
OrByte(a, b) ==
    OrBit(a, b, 0) + OrBit(a, b, 1) + OrBit(a, b, 2) + OrBit(a, b, 3)
    + OrBit(a, b, 4) + OrBit(a, b, 5) + OrBit(a, b, 6) + OrBit(a, b, 7)

AndByte(a, b) ==
    AndBit(a, b, 0) + AndBit(a, b, 1) + AndBit(a, b, 2) + AndBit(a, b, 3)
    + AndBit(a, b, 4) + AndBit(a, b, 5) + AndBit(a, b, 6) + AndBit(a, b, 7)

\* a | b and a & b, byte by byte from the lowest.
RECURSIVE BitOr(_, _)
BitOr(a, b) ==
    IF a = 0 THEN b
    ELSE IF b = 0 THEN a
    ELSE OrByte(a % 256, b % 256) + 256 * BitOr(a \div 256, b \div 256)

RECURSIVE BitAnd(_, _)
BitAnd(a, b) ==
    IF a = 0 \/ b = 0 THEN 0
    ELSE AndByte(a % 256, b % 256) + 256 * BitAnd(a \div 256, b \div 256)

Shl(x, k) == x * 2^k

Shr(x, k) == x \div 2^k

Byte(x) == x % 256

\* imax with the comparison turned round: the smaller of the two.
imaxFlipped(x, y) == IF x <= y THEN x ELSE y

imax(x, y) == IF x >= y THEN x ELSE y

\* iround(n / d): math.Round rounds half away from zero.
iround(n, d) ==
    IF n >= 0 THEN (2 * n + d) \div (2 * d)
    ELSE -((2 * (-n) + d) \div (2 * d))

\* Rationals <<n, d>>.
RMul(x, y) == <<x[1] * y[1], x[2] * y[2]>>

Zero == <<0, 1>>

One == <<1, 1>>

(***************************************************************************)
(* The Hash structure and its zero value.                                  *)
(***************************************************************************)
ZeroHash ==
    [LDC |-> Zero, PDC |-> Zero, QDC |-> Zero, LScale |-> Zero,
     HasAlpha |-> FALSE, Lx |-> 0, Ly |-> 0,
     PScale |-> Zero, QScale |-> Zero, IsLandscape |-> FALSE,
     ADC |-> Zero, AScale |-> Zero,
     LAC |-> <<>>, PAC |-> <<>>, QAC |-> <<>>, AAC |-> <<>>]

(***************************************************************************)
(* The channel loops.  A term is <<cx, cy>>.                               *)
(***************************************************************************)
\* The length of a run of a loop `for c := c0; test; c++`: passes is the set
\* of the values in c0..top that pass the test, and the loop ends at the
\* first value that fails it.
runLength(c0, top, passes) ==
    CHOOSE m \in 0..(top - c0 + 1) :
        /\ c0 + m > top \/ c0 + m \notin passes
        /\ \A d \in c0..(c0 + m - 1) : d \in passes

\* The inner loop of encodeChannel at row cy: for cx := 0; cx*ny < nx*(ny-cy).
\* The term (0,0) is the DC value and is not appended.
encodeRow(nx, ny, cy) ==
    SelectSeq(
        [k \in 1..runLength(0, nx, {cx \in 0..nx : cx * ny < nx * (ny - cy)})
            |-> <<k - 1, cy>>],
        LAMBDA t : t[1] > 0 \/ t[2] > 0)

\* The outer loop of encodeChannel, for cy := 0; cy < ny; cy++: the terms
\* whose values make up ac, in order, over the rows lo..hi.
RECURSIVE encodeTerms(_, _, _, _)
encodeTerms(nx, ny, lo, hi) ==
    IF lo > hi THEN <<>>
    ELSE IF lo = hi THEN encodeRow(nx, ny, lo)
    ELSE encodeTerms(nx, ny, lo, (lo + hi) \div 2)
         \o encodeTerms(nx, ny, (lo + hi) \div 2 + 1, hi)

\* The nibble decodeChannel reads at the running index idx.
nibbleAt(data, start, idx) ==
    BitAnd(Shr(data[start + (idx \div 2) + 1], BitAnd(idx, 1) * 4), 15)

\* The inner loop of decodeChannel at row cy: cx from 1 in row 0, else from
\* 0, while cx*ny < nx*(ny-cy).
decodeRow(nx, ny, cy) ==
    [k \in 1..runLength(IF cy = 0 THEN 1 ELSE 0, nx,
                        {cx \in 0..nx : cx * ny < nx * (ny - cy)})
        |-> <<k - 1 + (IF cy = 0 THEN 1 ELSE 0), cy>>]

\* The terms the loops of decodeChannel reach, in order, over the rows
\* lo..hi.
RECURSIVE decodeTerms(_, _, _, _)
decodeTerms(nx, ny, lo, hi) ==
    IF lo > hi THEN <<>>
    ELSE IF lo = hi THEN decodeRow(nx, ny, lo)
    ELSE decodeTerms(nx, ny, lo, (lo + hi) \div 2)
         \o decodeTerms(nx, ny, (lo + hi) \div 2 + 1, hi)

\* The test with the byte index one too small: hidx + 1 >= len(hash).
pastEndOffByOne(data, hidx) == hidx + 1 >= Len(data)

\* if hidx >= len(hash) { err = ErrInvalidHash; return nil }
pastEnd(data, hidx) == hidx >= Len(data)

\* The iterations decodeChannel completes out of n, the running index being
\* idx at its call: those before the first one whose byte is past the end.
nbReads(data, start, idx, n) ==
    CHOOSE m \in 0..n :
        /\ m = n \/ pastEnd(data, start + ((idx + m) \div 2))
        /\ \A j \in 1..m : ~pastEnd(data, start + ((idx + j - 1) \div 2))

\* What decodeChannel leaves after m completed iterations over terms: ac
\* (nil if it returned early), the shared variables idx and err, and for
\* the record the reads done, <<byte index, shift, nibble, cx, cy>>.
channelRead(data, start, c, scale, terms, m) ==
    [ac |-> IF m < Len(terms) THEN <<>>
            ELSE [k \in 1..m |->
                    <<(2 * nibbleAt(data, start, c.idx + k - 1) - 15)
                        * scale[1],
                      15 * scale[2]>>],
     idx |-> c.idx + m,
     err |-> c.err \/ m < Len(terms),
     reads |-> c.reads \o
        [k \in 1..m |->
            <<start + ((c.idx + k - 1) \div 2),
              BitAnd(c.idx + k - 1, 1) * 4,
              nibbleAt(data, start, c.idx + k - 1),
              terms[k][1], terms[k][2]>>]]

readTerms(data, start, c, scale, terms) ==
    channelRead(data, start, c, scale, terms,
                nbReads(data, start, c.idx, Len(terms)))

\* decodeChannel(nx, ny, scale): c holds the variables the closure shares
\* with its caller, idx, err and (for the record) reads.
decodeChannel(data, start, c, nx, ny, scale) ==
    readTerms(data, start, c, scale, decodeTerms(nx, ny, 0, ny - 1))

\* The caller keeps each result: acs holds the AC sequences returned so far.
nextChannel(c, r) ==
    [idx |-> r.idx, err |-> r.err, reads |-> r.reads,
     acs |-> Append(c.acs, r.ac)]

\* The calls of decodeChannel one after the other, each going on from the
\* idx and err the one before left: chans[i] is <<nx, ny, scale>> of the
\* i-th call (L, P, Q, then A with alpha).
RECURSIVE decodeChannels(_, _, _, _, _)
decodeChannels(data, start, chans, i, c) ==
    IF i > Len(chans) THEN c
    ELSE decodeChannels(data, start, chans, i + 1,
             nextChannel(c, decodeChannel(data, start, c, chans[i][1],
                                          chans[i][2], chans[i][3])))

NoReads == [idx |-> 0, err |-> FALSE, reads |-> <<>>, acs |-> <<>>]

(***************************************************************************)
(* Hash.Decode (src/unnamed/part_000).  cfg is the DecodingCfg.  The       *)
(* result holds err, the receiver as the call leaves it (h), and the       *)
(* nibble reads done.  The steps of the method follow one another as in    *)
(* the source; each is an operator that is given what the steps before it  *)
(* have assigned.                                                          *)
(***************************************************************************)
\* "First block", "Second block" and the defaults of the alpha data.
hashDecodeHeader(h0, data) ==
    LET header24 == BitOr(BitOr(data[1], Shl(data[2], 8)), Shl(data[3], 16))
        header16 == BitOr(data[4], Shl(data[5], 8))
        hasAlpha == Shr(header24, 23) # 0
        isLandscape == Shr(header16, 15) # 0
        lCount == BitAnd(header16, 7)
    IN  [h0 EXCEPT
           !.LDC = <<BitAnd(header24, 63), 63>>,
           !.PDC = <<2 * BitAnd(Shr(header24, 6), 63) - 63, 63>>,
           !.QDC = <<2 * BitAnd(Shr(header24, 12), 63) - 63, 63>>,
           !.LScale = <<BitAnd(Shr(header24, 18), 31), 31>>,
           !.HasAlpha = hasAlpha,
           !.PScale = <<BitAnd(Shr(header16, 3), 63), 63>>,
           !.QScale = <<BitAnd(Shr(header16, 9), 63), 63>>,
           !.IsLandscape = isLandscape,
           !.Lx = IF isLandscape
                  THEN (IF hasAlpha THEN 5 ELSE 7)
                  ELSE imax(3, lCount),
           !.Ly = IF isLandscape
                  THEN imax(3, lCount)
                  ELSE (IF hasAlpha THEN 5 ELSE 7),
           !.ADC = One,
           !.AScale = Zero]

\* The end of the method: h.LAC, h.PAC, h.QAC and h.AAC are assigned what
\* the calls returned, and err is returned.
hashDecodeResult(h2, c) ==
    [err |-> c.err,
     h |-> [h2 EXCEPT !.LAC = c.acs[1], !.PAC = c.acs[2], !.QAC = c.acs[3],
                      !.AAC = IF h2.HasAlpha THEN c.acs[4] ELSE @],
     reads |-> c.reads]

\* The calls with the saturation factor on the luminance scale too.
hashDecodeACBoostAll(h2, data, cfg) ==
    hashDecodeResult(h2,
        decodeChannels(data, IF h2.HasAlpha THEN 6 ELSE 5,
            << <<h2.Lx, h2.Ly, RMul(h2.LScale, cfg.SaturationBoost)>>,
               <<3, 3, RMul(h2.PScale, cfg.SaturationBoost)>>,
               <<3, 3, RMul(h2.QScale, cfg.SaturationBoost)>> >>
            \o (IF h2.HasAlpha THEN << <<5, 5, h2.AScale>> >> ELSE <<>>),
            1, NoReads))

\* "DC coefficients": the calls of decodeChannel.
hashDecodeAC(h2, data, cfg) ==
    hashDecodeResult(h2,
        decodeChannels(data, IF h2.HasAlpha THEN 6 ELSE 5,
            << <<h2.Lx, h2.Ly, h2.LScale>>,
               <<3, 3, RMul(h2.PScale, cfg.SaturationBoost)>>,
               <<3, 3, RMul(h2.QScale, cfg.SaturationBoost)>> >>
            \o (IF h2.HasAlpha THEN << <<5, 5, h2.AScale>> >> ELSE <<>>),
            1, NoReads))

\* "Alpha data".
hashDecodeAlpha(h1, data, cfg) ==
    IF h1.HasAlpha /\ Len(data) < 6
    THEN [err |-> TRUE, h |-> h1, reads |-> <<>>]
    ELSE hashDecodeAC(
             IF h1.HasAlpha
             THEN [h1 EXCEPT !.ADC = <<BitAnd(data[6], 15), 15>>,
                             !.AScale = <<Shr(data[6], 4), 15>>]
             ELSE h1,
             data, cfg)

HashDecode(h0, data, cfg) ==
    IF Len(data) < 5 THEN [err |-> TRUE, h |-> h0, reads |-> <<>>]
    ELSE hashDecodeAlpha(hashDecodeHeader(h0, data), data, cfg)

(***************************************************************************)
(* Hash.Size (src/unnamed/part_000): ratio > 1.0 is Lx > Ly, and           *)
(* baseSize / ratio is baseSize * Ly / Lx.  Called with Lx, Ly >= 1.       *)
(***************************************************************************)
\* Hash.Size with int() in the place of iround(): the quotient cut off.
HashSizeTruncated(hh, baseSize) ==
    IF hh.Lx > hh.Ly
    THEN [w |-> baseSize, h |-> (baseSize * hh.Ly) \div hh.Lx]
    ELSE [w |-> (baseSize * hh.Lx) \div hh.Ly, h |-> baseSize]

HashSize(hh, baseSize) ==
    IF hh.Lx > hh.Ly
    THEN [w |-> baseSize, h |-> iround(baseSize * hh.Ly, hh.Lx)]
    ELSE [w |-> iround(baseSize * hh.Lx, hh.Ly), h |-> baseSize]

\* The cosine tables Hash.coefficients makes: their lengths.
coefficients(hh) ==
    [nfx |-> imax(hh.Lx, IF hh.HasAlpha THEN 5 ELSE 3),
     nfy |-> imax(hh.Ly, IF hh.HasAlpha THEN 5 ELSE 3)]

(***************************************************************************)
(* Decode (src/thumbhash.go).                                              *)
(***************************************************************************)
\* "Prepare the image": the size of the decoded image.
decodeSize(lx, ly) ==
    IF lx > ly
    THEN [w |-> 32, h |-> iround(32 * ly, lx)]
    ELSE [w |-> iround(32 * lx, ly), h |-> 32]

\* "Decode L": the terms of the inner loop at row cy, cx from 1 in row 0,
\* else from 0, while cx*ly < lx*(ly-cy).
reconLRow(lx, ly, cy) ==
    [k \in 1..runLength(IF cy = 0 THEN 1 ELSE 0, lx,
                        {cx \in 0..lx : cx * ly < lx * (ly - cy)})
        |-> <<k - 1 + (IF cy = 0 THEN 1 ELSE 0), cy>>]

RECURSIVE reconL(_, _, _, _)
reconL(lx, ly, lo, hi) ==
    IF lo > hi THEN <<>>
    ELSE IF lo = hi THEN reconLRow(lx, ly, lo)
    ELSE reconL(lx, ly, lo, (lo + hi) \div 2)
         \o reconL(lx, ly, (lo + hi) \div 2 + 1, hi)

\* The inner loop with the bound one too large: cx <= n - cy.
reconTriRowWide(n, cy) ==
    [k \in 1..runLength(IF cy = 0 THEN 1 ELSE 0, n + 1,
                        {cx \in 0..(n + 1) : cx <= n - cy})
        |-> <<k - 1 + (IF cy = 0 THEN 1 ELSE 0), cy>>]

\* "Decode P and Q" (n = 3) and "Decode A" (n = 5): for cy < n, cx < n - cy.
reconTriRow(n, cy) ==
    [k \in 1..runLength(IF cy = 0 THEN 1 ELSE 0, n,
                        {cx \in 0..n : cx < n - cy})
        |-> <<k - 1 + (IF cy = 0 THEN 1 ELSE 0), cy>>]

RECURSIVE reconTri(_, _, _)
reconTri(n, lo, hi) ==
    IF lo > hi THEN <<>>
    ELSE IF lo = hi THEN reconTriRow(n, lo)
    ELSE reconTri(n, lo, (lo + hi) \div 2)
         \o reconTri(n, (lo + hi) \div 2 + 1, hi)

\* The accesses ac[j], fx[cx], fy[cy] of a loop over terms, as <<cx, cy, j>>:
\* j starts at 0 and goes up by one at each term.
accesses(terms) ==
    [k \in 1..Len(terms) |-> <<terms[k][1], terms[k][2], k - 1>>]

NoImage == "nil"

\* The header fields Decode reads before it looks at the alpha data.
decodeHeader(data) ==
    LET header24 == BitOr(BitOr(data[1], Shl(data[2], 8)), Shl(data[3], 16))
        hasAlphaBit == Shr(header24, 23)
        hasAlpha == hasAlphaBit = 1
        header16 == BitOr(data[4], Shl(data[5], 8))
        isLandscapeBit == Shr(header16, 15)
        isLandscape == isLandscapeBit = 1
    IN  [lDC |-> <<BitAnd(header24, 63), 63>>,
         pDC |-> <<2 * BitAnd(Shr(header24, 6), 63) - 63, 63>>,
         qDC |-> <<2 * BitAnd(Shr(header24, 12), 63) - 63, 63>>,
         lScale |-> <<BitAnd(Shr(header24, 18), 31), 31>>,
         hasAlpha |-> hasAlpha,
         pScale |-> <<BitAnd(Shr(header16, 3), 63), 63>>,
         qScale |-> <<BitAnd(Shr(header16, 9), 63), 63>>,
         isLandscape |-> isLandscape,
         lx |-> IF isLandscape
                THEN (IF hasAlpha THEN 5 ELSE 7)
                ELSE imax(3, BitAnd(header16, 7)),
         ly |-> IF isLandscape
                THEN imax(3, BitAnd(header16, 7))
                ELSE (IF hasAlpha THEN 5 ELSE 7)]

\* The tables sized without regard to alpha: n = imax(lx, 3).
decodeAccessesNoAlpha(loc) ==
    [nfx |-> imax(loc.lx, 3),
     nfy |-> imax(loc.ly, 3),
     L |-> accesses(reconL(loc.lx, loc.ly, 0, loc.ly - 1)),
     PQ |-> accesses(reconTri(3, 0, 2)),
     A |-> IF loc.hasAlpha THEN accesses(reconTri(5, 0, 4)) ELSE <<>>]

\* "Decode RGBA data": the lengths of the tables fx and fy, and the
\* accesses of the loops over L, over P and Q, and over A, for one pixel.
decodeAccesses(loc) ==
    [nfx |-> imax(loc.lx, IF loc.hasAlpha THEN 5 ELSE 3),
     nfy |-> imax(loc.ly, IF loc.hasAlpha THEN 5 ELSE 3),
     L |-> accesses(reconL(loc.lx, loc.ly, 0, loc.ly - 1)),
     PQ |-> accesses(reconTri(3, 0, 2)),
     A |-> IF loc.hasAlpha THEN accesses(reconTri(5, 0, 4)) ELSE <<>>]

\* After the calls of decodeChannel: the error return, or the image.  loc
\* holds the local variables of the function.
decodeImage(loc, c) ==
    [err |-> c.err,
     img |-> IF c.err THEN NoImage ELSE decodeSize(loc.lx, loc.ly),
     reads |-> c.reads,
     recon |-> IF c.err THEN <<>> ELSE decodeAccesses(loc),
     loc |-> [lAC |-> c.acs[1], pAC |-> c.acs[2], qAC |-> c.acs[3],
              aAC |-> IF loc.hasAlpha THEN c.acs[4] ELSE <<>>] @@ loc]

\* The calls of decodeChannel; the saturation factor is 1.25.
decodeAC(data, loc) ==
    decodeImage(loc,
        decodeChannels(data, IF loc.hasAlpha THEN 6 ELSE 5,
            << <<loc.lx, loc.ly, loc.lScale>>,
               <<3, 3, RMul(loc.pScale, <<5, 4>>)>>,
               <<3, 3, RMul(loc.qScale, <<5, 4>>)>> >>
            \o (IF loc.hasAlpha THEN << <<5, 5, loc.aScale>> >> ELSE <<>>),
            1, NoReads))

\* aDC and aScale.
decodeAlpha(data, hdr) ==
    IF hdr.hasAlpha /\ Len(data) < 6
    THEN [err |-> TRUE, img |-> NoImage, reads |-> <<>>, recon |-> <<>>,
          loc |-> hdr]
    ELSE decodeAC(data,
             [aDC |-> IF hdr.hasAlpha THEN <<BitAnd(data[6], 15), 15>>
                      ELSE One,
              aScale |-> IF hdr.hasAlpha THEN <<Shr(data[6], 4), 15>>
                         ELSE Zero] @@ hdr)

Decode(data) ==
    IF Len(data) < 5
    THEN [err |-> TRUE, img |-> NoImage, reads |-> <<>>, recon |-> <<>>,
          loc |-> <<>>]
    ELSE decodeAlpha(data, decodeHeader(data))

(***************************************************************************)
(* Fixed point.  A real x is the integer x * Unit, rounded down.           *)
(***************************************************************************)
Unit == 10 ^ 3

\* math.Cos on the arguments the codec gives it, pi * k / (2 * w) for
\* integers k >= 0 and w in 1..32.  QCos[w][k + 1] is Unit * cos(pi*k/(2w))
\* for k in 0..w, rounded to the nearest integer; the other arguments follow
\* by the symmetries of the cosine.
QCos ==
    << <<1000, 0>>,
       <<1000, 707, 0>>,
       <<1000, 866, 500, 0>>,
       <<1000, 924, 707, 383, 0>>,
       <<1000, 951, 809, 588, 309, 0>>,
       <<1000, 966, 866, 707, 500, 259, 0>>,
       <<1000, 975, 901, 782, 623, 434, 223, 0>>,
       <<1000, 981, 924, 831, 707, 556, 383, 195, 0>>,
       <<1000, 985, 940, 866, 766, 643, 500, 342, 174, 0>>,
       <<1000, 988, 951, 891, 809, 707, 588, 454, 309, 156, 0>>,
       <<1000, 990, 959, 910, 841, 756, 655, 541, 415, 282, 142, 0>>,
       <<1000, 991, 966, 924, 866, 793, 707, 609, 500, 383, 259, 131, 0>>,
       <<1000, 993, 971, 935, 885, 823, 749, 663, 568, 465, 355, 239, 121, 0>>,
       <<1000, 994, 975, 944, 901, 847, 782, 707, 623, 532, 434, 330, 223, 112,
       0>>,
       <<1000, 995, 978, 951, 914, 866, 809, 743, 669, 588, 500, 407, 309, 208,
       105, 0>>,
       <<1000, 995, 981, 957, 924, 882, 831, 773, 707, 634, 556, 471, 383, 290,
       195, 98, 0>>,
       <<1000, 996, 983, 962, 932, 895, 850, 798, 739, 674, 603, 526, 446, 361,
       274, 184, 92, 0>>,
       <<1000, 996, 985, 966, 940, 906, 866, 819, 766, 707, 643, 574, 500, 423,
       342, 259, 174, 87, 0>>,
       <<1000, 997, 986, 969, 946, 916, 879, 837, 789, 736, 677, 614, 547, 476,
       402, 325, 245, 165, 83, 0>>,
       <<1000, 997, 988, 972, 951, 924, 891, 853, 809, 760, 707, 649, 588, 522,
       454, 383, 309, 233, 156, 78, 0>>,
       <<1000, 997, 989, 975, 956, 931, 901, 866, 826, 782, 733, 680, 623, 563,
       500, 434, 365, 295, 223, 149, 75, 0>>,
       <<1000, 997, 990, 977, 959, 937, 910, 878, 841, 801, 756, 707, 655, 599,
       541, 479, 415, 349, 282, 213, 142, 71, 0>>,
       <<1000, 998, 991, 979, 963, 942, 917, 888, 854, 817, 776, 731, 683, 631,
       577, 520, 460, 398, 335, 270, 203, 136, 68, 0>>,
       <<1000, 998, 991, 981, 966, 947, 924, 897, 866, 831, 793, 752, 707, 659,
       609, 556, 500, 442, 383, 321, 259, 195, 131, 65, 0>>,
       <<1000, 998, 992, 982, 969, 951, 930, 905, 876, 844, 809, 771, 729, 685,
       637, 588, 536, 482, 426, 368, 309, 249, 187, 125, 63, 0>>,
       <<1000, 998, 993, 984, 971, 955, 935, 912, 885, 856, 823, 787, 749, 707,
       663, 617, 568, 517, 465, 410, 355, 298, 239, 180, 121, 60, 0>>,
       <<1000, 998, 993, 985, 973, 958, 940, 918, 894, 866, 835, 802, 766, 727,
       686, 643, 597, 550, 500, 449, 396, 342, 287, 231, 174, 116, 58, 0>>,
       <<1000, 998, 994, 986, 975, 961, 944, 924, 901, 875, 847, 816, 782, 746,
       707, 666, 623, 579, 532, 484, 434, 383, 330, 277, 223, 168, 112, 56, 0>>,
       <<1000, 999, 994, 987, 977, 964, 948, 929, 908, 884, 857, 828, 796, 762,
       726, 688, 647, 605, 561, 516, 468, 420, 370, 319, 268, 215, 162, 108,
       54, 0>>,
       <<1000, 999, 995, 988, 978, 966, 951, 934, 914, 891, 866, 839, 809, 777,
       743, 707, 669, 629, 588, 545, 500, 454, 407, 358, 309, 259, 208, 156,
       105, 52, 0>>,
       <<1000, 999, 995, 988, 980, 968, 954, 938, 919, 898, 874, 849, 821, 791,
       759, 725, 689, 651, 612, 571, 529, 485, 440, 394, 347, 299, 251, 201,
       151, 101, 51, 0>>,
       <<1000, 999, 995, 989, 981, 970, 957, 942, 924, 904, 882, 858, 831, 803,
       773, 741, 707, 672, 634, 596, 556, 514, 471, 428, 383, 337, 290, 243,
       195, 147, 98, 49, 0>> >>

Cos(k, w) ==
    LET r == k % (4 * w)
        q == IF r <= w THEN r
             ELSE IF r <= 2 * w THEN 2 * w - r
             ELSE IF r <= 3 * w THEN r - 2 * w
             ELSE 4 * w - r
        sign == IF r > w /\ r <= 3 * w THEN -1 ELSE 1
    IN  sign * QCos[w][q + 1]

\* math.Abs and math.Max on fixed-point numbers.
Abs(x) == IF x >= 0 THEN x ELSE -x

Max(x, y) == IF x >= y THEN x ELSE y

(***************************************************************************)
(* Encode (src/thumbhash.go).  An image is [w, h, pix], pix the RGBA       *)
(* bytes <<r, g, b, a>> of its pixels, row by row.                         *)
(***************************************************************************)
\* xs[lo] + ... + xs[hi], added up by halves.
RECURSIVE Sum(_, _, _)
Sum(xs, lo, hi) ==
    IF lo > hi THEN 0
    ELSE IF lo = hi THEN xs[lo]
    ELSE Sum(xs, lo, (lo + hi) \div 2) + Sum(xs, (lo + hi) \div 2 + 1, hi)

\* The sum f of channel[x+y*w] * fx[x] * fy over the pixels, where
\* fx[x] = cos(pi/w * cx * (x+0.5)) and fy = cos(pi/h * cy * (y+0.5)), in
\* units of 1/Unit^2.
dctSum(channel, w, hh, cx, cy) ==
    Sum([i \in 1..(w * hh) |->
            ((channel[i] * Cos(cx * (2 * ((i - 1) % w) + 1), w)) \div Unit)
            * Cos(cy * (2 * ((i - 1) \div w) + 1), hh)],
        1, w * hh)

\* The value f of the term (cx, cy) after f /= float64(nbPixels).
dctTerm(channel, w, hh, cx, cy) ==
    dctSum(channel, w, hh, cx, cy) \div (w * hh * Unit)

\* scale = math.Max(scale, math.Abs(f)) over the AC values, from 0.
maxAbs(ac) ==
    CHOOSE m \in {0} \cup {Abs(ac[i]) : i \in 1..Len(ac)} :
        \A i \in 1..Len(ac) : Abs(ac[i]) <= m

\* A slice with each of its elements computed once.
Stored(xs) == SubSeq(xs, 1, Len(xs))

\* The values f of the terms, in the order the loops reach them.
dctTerms(channel, w, hh, terms) ==
    Stored([k \in 1..Len(terms) |->
               dctTerm(channel, w, hh, terms[k][1], terms[k][2])])

\* if scale > 0.0 { ac[i] = 0.5 + 0.5/scale*ac[i] }
normalise(ac, scale) ==
    IF scale > 0
    THEN [k \in 1..Len(ac) |-> Unit \div 2 + (Unit * ac[k]) \div (2 * scale)]
    ELSE ac

\* What encodeChannel returns: dc, ac and scale (and the terms of ac).
channelResult(dc, raw, terms) ==
    [dc |-> dc, ac |-> normalise(raw, maxAbs(raw)),
     scale |-> maxAbs(raw), terms |-> terms]

channelOver(channel, w, hh, terms) ==
    channelResult(dctTerm(channel, w, hh, 0, 0),
                  dctTerms(channel, w, hh, terms), terms)

\* encodeChannel(channel, nx, ny), in fixed point.
encodeChannel(channel, w, hh, nx, ny) ==
    channelOver(channel, w, hh, encodeTerms(nx, ny, 0, ny - 1))

\* The dimension stored as lCount, with the other one left out.
lCountSwapped(isLandscape, lx, ly) == IF isLandscape THEN lx ELSE ly

\* The luminance dimension stored in the second block: lx, or ly for a
\* landscape image.
lCountOf(isLandscape, lx, ly) == IF isLandscape THEN ly ELSE lx

\* header24 with the luminance scale quantized to 32 steps: a scale of 1.0
\* then reaches the HasAlpha bit.
header24Wide(lDC, pDC, qDC, lScale, hasAlpha) ==
    LET a == iround(63 * lDC[1], lDC[2])
        b == BitOr(a, Shl(iround(63 * (pDC[2] + pDC[1]), 2 * pDC[2]), 6))
        c == BitOr(b, Shl(iround(63 * (qDC[2] + qDC[1]), 2 * qDC[2]), 12))
        d == BitOr(c, Shl(iround(32 * lScale[1], lScale[2]), 18))
    IN  IF hasAlpha THEN BitOr(d, Shl(1, 23)) ELSE d

\* The first block: header24.
header24Of(lDC, pDC, qDC, lScale, hasAlpha) ==
    LET a == iround(63 * lDC[1], lDC[2])
        b == BitOr(a, Shl(iround(63 * (pDC[2] + pDC[1]), 2 * pDC[2]), 6))
        c == BitOr(b, Shl(iround(63 * (qDC[2] + qDC[1]), 2 * qDC[2]), 12))
        d == BitOr(c, Shl(iround(31 * lScale[1], lScale[2]), 18))
    IN  IF hasAlpha THEN BitOr(d, Shl(1, 23)) ELSE d

\* header16 with the Q scale shifted by 8: its lowest bit falls on the
\* highest bit of the P scale.
header16Overlap(lCount, pScale, qScale, isLandscape) ==
    LET a == lCount
        b == BitOr(a, Shl(iround(63 * pScale[1], pScale[2]), 3))
        c == BitOr(b, Shl(iround(63 * qScale[1], qScale[2]), 8))
    IN  IF isLandscape THEN BitOr(c, Shl(1, 15)) ELSE c

\* The second block: header16.
header16Of(lCount, pScale, qScale, isLandscape) ==
    LET a == lCount
        b == BitOr(a, Shl(iround(63 * pScale[1], pScale[2]), 3))
        c == BitOr(b, Shl(iround(63 * qScale[1], qScale[2]), 9))
    IN  IF isLandscape THEN BitOr(c, Shl(1, 15)) ELSE c

\* The alpha byte.
alphaByte(aDC, aScale) ==
    Byte(BitOr(iround(15 * aDC[1], aDC[2]),
               Shl(iround(15 * aScale[1], aScale[2]), 4)))

\* The nibble byte with the shifts exchanged: even idx to the high nibble.
nibbleByteSwapped(f, idx) ==
    Byte(Shl(iround(15 * f[1], f[2]), (1 - BitAnd(idx, 1)) * 4))

\* The byte a nibble write ORs into the hash: byte(iround(15*f) << shift).
nibbleByte(f, idx) ==
    Byte(Shl(iround(15 * f[1], f[2]), BitAnd(idx, 1) * 4))

\* The writes the loop over the AC values completes out of n: those before
\* the first one whose index start+(idx/2) is out of range, where a Go
\* program panics.
nbWrites(start, n, hashSize) ==
    CHOOSE m \in 0..n :
        /\ m = n \/ start + (m \div 2) >= hashSize
        /\ \A j \in 1..m : start + ((j - 1) \div 2) < hashSize

\* The byte at index i after the writes 0..m-1: the write idx ORs
\* byte(iround(15*f) << ((idx&1)*4)) into hash[start+(idx/2)].
nibbleWritten(bytes, start, fs, m, i) ==
    LET lo == 2 * (i - start)
    IN  BitOr(BitOr(bytes[i + 1],
                    IF i >= start /\ lo < m
                    THEN nibbleByte(fs[lo + 1], lo) ELSE 0),
              IF i >= start /\ lo + 1 < m
              THEN nibbleByte(fs[lo + 2], lo + 1) ELSE 0)

\* The array, panic and the writes done, <<byte index, shift, iround(15*f)>>,
\* after m writes.
nibblesWritten(start, fs, bytes, m) ==
    [hash |-> [i \in 1..Len(bytes) |->
                  nibbleWritten(bytes, start, fs, m, i - 1)],
     panic |-> m < Len(fs),
     writes |-> [k \in 1..m |->
                    <<start + ((k - 1) \div 2), BitAnd(k - 1, 1) * 4,
                      iround(15 * fs[k][1], fs[k][2])>>]]

\* The loop over the AC values fs (all channels, in order):
\* hash[start+(idx/2)] |= byte(iround(15*f) << ((idx&1)*4)); idx++
writeNibbles(start, fs, bytes) ==
    nibblesWritten(start, fs, bytes, nbWrites(start, Len(fs), Len(bytes)))

\* What the packing leaves: the array, panic, the writes.
packResult(s, nbAC, hashSize, start, header24, header16, acs) ==
    [hash |-> s.hash, panic |-> s.panic, writes |-> s.writes,
     nbAC |-> nbAC, hashSize |-> hashSize, start |-> start,
     header24 |-> header24, header16 |-> header16, acs |-> acs]

\* The array of hashSize bytes with the header words and the alpha byte.
headerBytes(hashSize, header24, header16, hasAlpha, alpha) ==
    [i \in 1..hashSize |->
        CASE i = 1 -> Byte(header24)
          [] i = 2 -> Byte(Shr(header24, 8))
          [] i = 3 -> Byte(Shr(header24, 16))
          [] i = 4 -> Byte(header16)
          [] i = 5 -> Byte(Shr(header16, 8))
          [] i = 6 /\ hasAlpha -> alpha
          [] OTHER -> 0]

packSized(nbAC, hashSize, start, header24, header16, hasAlpha, alpha, acs) ==
    packResult(
        writeNibbles(start, acs,
            headerBytes(hashSize, header24, header16, hasAlpha, alpha)),
        nbAC, hashSize, start, header24, header16, acs)

\* packHash with the nibble bytes rounded down: nbAC/2 for (nbAC+1)/2.
packHashShort(header24, header16, hasAlpha, alpha, acs) ==
    packSized(Len(acs),
              3 + 2 + Len(acs) \div 2 + (IF hasAlpha THEN 1 ELSE 0),
              IF hasAlpha THEN 6 ELSE 5,
              header24, header16, hasAlpha, alpha, acs)

\* "Create the hash": hashSize, the header words, the alpha byte and the AC
\* values acs of the channels written, in order.
packHash(header24, header16, hasAlpha, alpha, acs) ==
    packSized(Len(acs),
              3 + 2 + (Len(acs) + 1) \div 2 + (IF hasAlpha THEN 1 ELSE 0),
              IF hasAlpha THEN 6 ELSE 5,
              header24, header16, hasAlpha, alpha, acs)

Fixed(xs) == [k \in 1..Len(xs) |-> <<xs[k], Unit>>]

\* From "Create the hash" on: L, P, Q and A are what encodeChannel returned.
encodeHash(isLandscape, hasAlpha, lx, ly, L, P, Q, A) ==
    packHash(
        header24Of(<<L.dc, Unit>>, <<P.dc, Unit>>, <<Q.dc, Unit>>,
                   <<L.scale, Unit>>, hasAlpha),
        header16Of(lCountOf(isLandscape, lx, ly),
                   <<P.scale, Unit>>, <<Q.scale, Unit>>, isLandscape),
        hasAlpha,
        alphaByte(<<A.dc, Unit>>, <<A.scale, Unit>>),
        Fixed(L.ac) \o Fixed(P.ac) \o Fixed(Q.ac)
            \o (IF hasAlpha THEN Fixed(A.ac) ELSE <<>>))
    @@ [hasAlpha |-> hasAlpha, isLandscape |-> isLandscape,
        lx |-> lx, ly |-> ly,
        lDC |-> L.dc, pDC |-> P.dc, qDC |-> Q.dc, aDC |-> A.dc,
        lScale |-> L.scale, pScale |-> P.scale, qScale |-> Q.scale,
        aScale |-> A.scale,
        lTerms |-> L.terms, pTerms |-> P.terms, qTerms |-> Q.terms,
        aTerms |-> A.terms]

NoChannel == [dc |-> 0, ac |-> <<>>, scale |-> 0, terms |-> <<>>]

Encode(im) ==
    LET w == im.w
        hh == im.h
        pix == im.pix
        nbPixels == w * hh
        \* Compute the average value of each color channel
        aChannel == Stored([i \in 1..nbPixels |-> (pix[i][4] * Unit) \div 255])
        avgA == Sum(aChannel, 1, nbPixels)
        avg(c) ==
            LET sum == Sum([i \in 1..nbPixels |->
                               (aChannel[i] * pix[i][c]) \div 255],
                           1, nbPixels)
            IN  IF avgA > 0 THEN (sum * Unit) \div avgA ELSE sum
        avgRGB == <<avg(1), avg(2), avg(3)>>
        \* Convert image data from RGBA to LPQA
        hasAlpha == avgA < nbPixels * Unit
        lLimit == IF hasAlpha THEN 5 ELSE 7
        maxWH == Max(w, hh)
        rgb == [c \in 1..3 |->
                  Stored([i \in 1..nbPixels |->
                             (avgRGB[c] * (Unit - aChannel[i])) \div Unit
                             + (aChannel[i] * pix[i][c]) \div 255])]
        lpq == [k \in 1..3 |->
                  Stored([i \in 1..nbPixels |->
                      CASE k = 1 -> (rgb[1][i] + rgb[2][i] + rgb[3][i]) \div 3
                        [] k = 2 -> (rgb[1][i] + rgb[2][i]) \div 2 - rgb[3][i]
                        [] OTHER -> rgb[1][i] - rgb[2][i]])]
    IN  encodeHash(w > hh, hasAlpha,
                   imax(1, iround(lLimit * w, maxWH)),
                   imax(1, iround(lLimit * hh, maxWH)),
                   \* Encode LPQA data using a DCT
                   encodeChannel(lpq[1], w, hh,
                                 imax(imax(1, iround(lLimit * w, maxWH)), 3),
                                 imax(imax(1, iround(lLimit * hh, maxWH)), 3)),
                   encodeChannel(lpq[2], w, hh, 3, 3),
                   encodeChannel(lpq[3], w, hh, 3, 3),
                   IF hasAlpha
                   THEN encodeChannel(aChannel, w, hh, 5, 5)
                   ELSE NoChannel)

(***************************************************************************)
(* Hash.Encode (src/unnamed/part_000).                                     *)
(***************************************************************************)
HashEncode(hh) ==
    packHash(
        header24Of(hh.LDC, hh.PDC, hh.QDC, hh.LScale, hh.HasAlpha),
        header16Of(lCountOf(hh.IsLandscape, hh.Lx, hh.Ly),
                   hh.PScale, hh.QScale, hh.IsLandscape),
        hh.HasAlpha,
        alphaByte(hh.ADC, hh.AScale),
        hh.LAC \o hh.PAC \o hh.QAC
            \o (IF hh.HasAlpha THEN hh.AAC ELSE <<>>))

(***************************************************************************)
(* The inputs the calling program draws from.                              *)
(***************************************************************************)
\* The longest byte array given to the decoders that no encoder made.
MaxLen == 30

\* The pixel i (from 0) of an image of width w, by pattern.  RGBA bytes are
\* premultiplied by alpha, as image.RGBA holds them.
Pixel(pat, i, w) ==
    LET x == i % w
        y == i \div w
    IN  CASE pat = 1 -> IF (x + y) % 2 = 0 THEN <<255, 255, 255, 255>>
                        ELSE <<0, 0, 0, 255>>
          [] pat = 2 -> IF x % 2 = 0 THEN <<255, 0, 0, 255>>
                        ELSE <<0, 0, 255, 255>>
          [] pat = 3 -> IF i = 0 THEN <<0, 0, 0, 0>>
                        ELSE <<255, 255, 0, 255>>
          [] pat = 4 -> <<100, 50, 200, 254>>
          [] pat = 5 -> <<0, 0, 0, 0>>
          [] OTHER -> <<255, 255, 255, 255>>

Patterns == 1..6

Image(w, hh, pat) ==
    [w |-> w, h |-> hh, pat |-> pat,
     pix |-> [i \in 1..(w * hh) |-> Pixel(pat, i - 1, w)]]

\* Values of a field in [0, 1] and of a field in [-1, 1].
UnitSamples == << <<0, 1>>, <<1, 2>>, <<1, 1>>, <<5, 126>> >>

SignedSamples == << <<-1, 1>>, <<0, 1>>, <<1, 1>>, <<-1, 3>> >>

\* AC values in [0, 1], n of them.
ACSamples(n, seed) == [k \in 1..n |-> <<(7 * k + seed) % 31, 30>>]

\* A Hash as an image encoder builds it: the counted luminance dimension
\* is count, the other one is 5 (alpha) or 7, and each AC sequence has the
\* length of its grid.
HashInput(a, b, alpha, landscape, count, seed) ==
    LET limit == IF alpha THEN 5 ELSE 7
        lx == IF landscape THEN limit ELSE count
        ly == IF landscape THEN count ELSE limit
    IN  [LDC |-> UnitSamples[a], PDC |-> SignedSamples[b],
         QDC |-> SignedSamples[a], LScale |-> UnitSamples[b],
         HasAlpha |-> alpha, Lx |-> lx, Ly |-> ly,
         PScale |-> UnitSamples[a], QScale |-> UnitSamples[b],
         IsLandscape |-> landscape,
         ADC |-> IF alpha THEN UnitSamples[a] ELSE Zero,
         AScale |-> IF alpha THEN UnitSamples[b] ELSE Zero,
         LAC |-> ACSamples(Len(encodeTerms(imax(lx, 3), imax(ly, 3), 0,
                                             imax(ly, 3) - 1)),
                           seed),
         PAC |-> ACSamples(5, seed + 1),
         QAC |-> ACSamples(5, seed + 2),
         AAC |-> IF alpha THEN ACSamples(14, seed + 3) ELSE <<>>]

\* A byte array of length n that no encoder made: the three flag fields are
\* as given, every other bit follows from fill.
Crafted(alpha, landscape, count, n, fill) ==
    LET b3 == (IF alpha THEN 128 ELSE 0) + ((fill * 5) % 128)
        b4 == count + 8 * ((fill * 3) % 32)
        b5 == (IF landscape THEN 128 ELSE 0) + ((fill * 11) % 128)
    IN  [i \in 1..n |->
            CASE i = 1 -> (fill * 37) % 256
              [] i = 2 -> (fill * 59) % 256
              [] i = 3 -> b3
              [] i = 4 -> b4
              [] i = 5 -> b5
              [] OTHER -> (fill * 29 + i * 53) % 256]

None == [op |-> "none"]

(***************************************************************************)
(* The calling program: it encodes an image or a Hash or takes a byte      *)
(* array from elsewhere, may cut the array short, decodes it, and may ask  *)
(* for the size of the decoded Hash.                                       *)
(***************************************************************************)
Init ==
    /\ pc = "start"
    /\ img = None
    /\ hash = <<>>
    /\ h = ZeroHash
    /\ enc = None
    /\ dec = None
    /\ size = None
    /\ grid = None

\* The program loads an image.
Load ==
    /\ pc = "start"
    /\ \E w \in 1..MaxDim, hh \in 1..MaxDim, pat \in Patterns :
          img' = Image(w, hh, pat)
    /\ pc' = "loaded"
    /\ UNCHANGED <<hash, h, enc, dec, size, grid>>

\* hash := Encode(img)
CallEncode ==
    /\ pc = "loaded"
    /\ LET e == Encode(img)
       IN  /\ hash' = e.hash
           /\ enc' = [e EXCEPT !.hash = <<>>] @@ [op |-> "Encode"]
    /\ pc' = "encoded"
    /\ UNCHANGED <<img, h, dec, size, grid>>

\* The program builds a Hash: h := Hash{...}
Build ==
    /\ pc = "start"
    /\ \E a \in 1..4, b \in 1..4, alpha \in BOOLEAN, landscape \in BOOLEAN,
          count \in 0..7, seed \in {4} :
          h' = HashInput(a, b, alpha, landscape, count, seed)
    /\ pc' = "built"
    /\ UNCHANGED <<img, hash, enc, dec, size, grid>>

\* hash := h.Encode()
CallHashEncode ==
    /\ pc = "built"
    /\ LET e == HashEncode(h)
       IN  /\ hash' = e.hash
           /\ enc' = [e EXCEPT !.hash = <<>>] @@ [op |-> "HashEncode"]
    /\ pc' = "encoded"
    /\ UNCHANGED <<img, h, dec, size, grid>>

\* The program is given bytes from elsewhere.
Receive ==
    /\ pc = "start"
    /\ \E alpha \in BOOLEAN, landscape \in BOOLEAN, count \in 0..7,
          n \in 0..MaxLen, fill \in {0, 7} :
          hash' = Crafted(alpha, landscape, count, n, fill)
    /\ enc' = [op |-> "Receive"]
    /\ pc' = "encoded"
    /\ UNCHANGED <<img, h, dec, size, grid>>

\* The bytes an encoder made are cut short: to the header alone, or by a few
\* bytes at the end.
Truncate ==
    /\ pc = "encoded"
    /\ enc.op # "Receive"
    /\ \E n \in {4, 5} \cup {Len(hash) - k : k \in 1..MaxCut} :
          hash' = SubSeq(hash, 1, n)
    /\ pc' = "cut"
    /\ UNCHANGED <<img, h, enc, dec, size, grid>>

\* img, err := Decode(hash)
CallDecode ==
    /\ pc \in {"encoded", "cut"}
    /\ dec' = Decode(hash) @@ [op |-> "Decode", h0 |-> h]
    /\ pc' = "decoded"
    /\ UNCHANGED <<img, hash, h, enc, size, grid>>

\* err := h.Decode(hash, cfg)
CallHashDecode ==
    /\ pc \in {"encoded", "cut"}
    /\ \E boost \in {<<5, 4>>, <<1, 1>>} :
          LET d == HashDecode(h, hash, [SaturationBoost |-> boost])
          IN  /\ h' = d.h
              /\ dec' = [op |-> "HashDecode", err |-> d.err,
                         reads |-> d.reads, h0 |-> h, boost |-> boost]
    /\ pc' = "decoded"
    /\ UNCHANGED <<img, hash, enc, size, grid>>

\* w, h := h.Size(baseSize), on a decoded Hash
CallHashSize ==
    /\ pc = "decoded"
    /\ dec.op = "HashDecode"
    /\ ~dec.err
    /\ \E baseSize \in (1..MaxBase) \cup {32} :
          size' = HashSize(h, baseSize)
                  @@ [op |-> "Size", baseSize |-> baseSize,
                      fx |-> coefficients(h).nfx, fy |-> coefficients(h).nfy]
    /\ pc' = "sized"
    /\ UNCHANGED <<img, hash, h, enc, dec, grid>>

Next ==
    \/ Load
    \/ CallEncode
    \/ Build
    \/ CallHashEncode
    \/ Receive
    \/ Truncate
    \/ CallDecode
    \/ CallHashDecode
    \/ CallHashSize

Spec == Init /\ [][Next]_vars

(***************************************************************************)
(* The channel loops and the size rules on their own: a grid (nx, ny) is   *)
(* drawn, and encodeChannel, decodeChannel, the loops of "Decode RGBA      *)
(* data", Hash.Size and the size rule of Decode are applied to it.         *)
(***************************************************************************)
NoSize == [w |-> -1, h |-> -1, baseSize |-> 0]

InitPure ==
    /\ pc = "grid"
    /\ img = None
    /\ hash = <<>>
    /\ h = ZeroHash
    /\ enc = None
    /\ dec = None
    /\ size = None
    /\ grid \in {[nx |-> nx, ny |-> ny, encode |-> None, decode |-> None,
                  recon |-> None, hsize |-> NoSize, dsize |-> NoSize] :
                 nx \in 3..MaxGrid, ny \in 3..MaxGrid}

\* encodeChannel(channel, nx, ny) on the one pixel of a 1 x 1 image.
RunEncodeChannel ==
    /\ grid.encode = None
    /\ grid' = [grid EXCEPT !.encode =
                   encodeChannel(<<Unit>>, 1, 1, grid.nx, grid.ny)
                   @@ [op |-> "encodeChannel"]]
    /\ UNCHANGED <<pc, img, hash, h, enc, dec, size>>

\* decodeChannel(nx, ny, 1.0) on bytes enough for every term.
RunDecodeChannel ==
    /\ grid.decode = None
    /\ grid' = [grid EXCEPT !.decode =
                   decodeChannel([i \in 1..(grid.nx * grid.ny) |-> 0], 0,
                                 NoReads, grid.nx, grid.ny, One)
                   @@ [op |-> "decodeChannel"]]
    /\ UNCHANGED <<pc, img, hash, h, enc, dec, size>>

\* The loops of "Decode RGBA data" with lx = nx, ly = ny.
RunRecon ==
    /\ grid.recon = None
    /\ \E alpha \in BOOLEAN :
          grid' = [grid EXCEPT !.recon =
                      decodeAccesses([lx |-> grid.nx, ly |-> grid.ny,
                                      hasAlpha |-> alpha])
                      @@ [op |-> "recon", hasAlpha |-> alpha]]
    /\ UNCHANGED <<pc, img, hash, h, enc, dec, size>>

\* Hash.Size(baseSize) on a Hash with Lx = nx, Ly = ny.
RunSize ==
    /\ grid.hsize = NoSize
    /\ \E baseSize \in (1..MaxBase) \cup {32} :
          grid' = [grid EXCEPT !.hsize =
                      HashSize([ZeroHash EXCEPT !.Lx = grid.nx,
                                                !.Ly = grid.ny], baseSize)
                      @@ [baseSize |-> baseSize]]
    /\ UNCHANGED <<pc, img, hash, h, enc, dec, size>>

\* The size Decode gives its image with lx = nx, ly = ny.
RunDecodeSize ==
    /\ grid.dsize = NoSize
    /\ grid' = [grid EXCEPT !.dsize =
                   decodeSize(grid.nx, grid.ny) @@ [baseSize |-> 32]]
    /\ UNCHANGED <<pc, img, hash, h, enc, dec, size>>

NextPure ==
    \/ RunEncodeChannel
    \/ RunDecodeChannel
    \/ RunRecon
    \/ RunSize
    \/ RunDecodeSize

SpecPure == InitPure /\ [][NextPure]_vars

(***************************************************************************)
(* "Convert to RGBA" (src/thumbhash.go): the last step of "Decode RGBA     *)
(* data", from the values l, p, q, a of a pixel to its four bytes.  The    *)
(* values are fractions <<n, d>> with d > 0.                               *)
(***************************************************************************)
RAdd(x, y) == <<x[1] * y[2] + y[1] * x[2], x[2] * y[2]>>

RSub(x, y) == <<x[1] * y[2] - y[1] * x[2], x[2] * y[2]>>

RLess(x, y) == x[1] * y[2] < y[1] * x[2]

\* math.Max and math.Min
RMax(x, y) == IF RLess(x, y) THEN y ELSE x

RMin(x, y) == IF RLess(y, x) THEN y ELSE x

\* byte(x) of a float64 in [0, 256): the fraction is cut off.
byte(x) == x[1] \div x[2]

\* The clamp without its upper side: math.Max(0.0, a).
clampAlphaLow(a) == RMax(Zero, a)

\* af := math.Max(0.0, math.Min(1.0, a))
clampAlpha(a) == RMax(Zero, RMin(One, a))

\* byte(math.Max(0.0, math.Min(1.0, c)*255.0*af))
colourByte(c, af) ==
    byte(RMax(Zero, RMul(RMul(RMin(One, c), <<255, 1>>), af)))

\* The bytes written at data[idx..idx+3], with the values they come from.
pixelBytes(r, g, b, a, af) ==
    [r |-> r, g |-> g, b |-> b, a |-> a, af |-> af,
     data |-> <<colourByte(r, af), colourByte(g, af), colourByte(b, af),
                byte(RMul(af, <<255, 1>>))>>]

\* b := l - 2.0/3.0*p;  r := (3.0*l - b + q) / 2.0;  g := r - q
pixelRGB(l, q, a, b) ==
    pixelBytes(RMul(RAdd(RSub(RMul(<<3, 1>>, l), b), q), <<1, 2>>),
               RSub(RMul(RAdd(RSub(RMul(<<3, 1>>, l), b), q), <<1, 2>>), q),
               b, a, clampAlpha(a))

convertToRGBA(l, p, q, a) == pixelRGB(l, q, a, RSub(l, RMul(<<2, 3>>, p)))

\* The values l, p, q or a of a pixel: k / (2 * MaxStep).
Sample(k) == <<k, 2 * MaxStep>>

InitPixel ==
    /\ pc = "pixel"
    /\ img = None
    /\ hash = <<>>
    /\ h = ZeroHash
    /\ enc = None
    /\ dec = None
    /\ size = None
    /\ grid \in {[l |-> Sample(l), p |-> Sample(2 * p), q |-> Sample(2 * q),
                  a |-> Sample(a)] :
                 l \in (-2)..(2 * MaxStep + 2),
                 p \in (-(MaxStep + 1))..(MaxStep + 1),
                 q \in (-(MaxStep + 1))..(MaxStep + 1),
                 a \in (-2)..(2 * MaxStep + 2)}

\* "Convert to RGBA" on the pixel.
ConvertPixel ==
    /\ pc = "pixel"
    /\ dec' = convertToRGBA(grid.l, grid.p, grid.q, grid.a)
              @@ [op |-> "pixel"]
    /\ pc' = "converted"
    /\ UNCHANGED <<img, hash, h, enc, size, grid>>

NextPixel == ConvertPixel

SpecPixel == InitPixel /\ [][NextPixel]_vars

(***************************************************************************)
(* The statements checked.  They are stated over the bytes and the inputs  *)
(* in plain arithmetic, apart from the operators above.                    *)
(***************************************************************************)
\* The flags and the stored count of a byte array of at least 5 bytes.
AlphaBit(data) == data[3] >= 128

LandscapeBit(data) == data[5] >= 128

StoredCount(data) == data[4] % 8

\* The terms of a grid by the inclusion rule: cx * ny < nx * (ny - cy),
\* without (0, 0).
RuleSet(nx, ny) ==
    {t \in (0..(nx - 1)) \X (0..(ny - 1)) :
        /\ t # <<0, 0>>
        /\ t[1] * ny < nx * (ny - t[2])}

\* The luminance grid a decoder derives from the header.
RuleLx(data) ==
    IF LandscapeBit(data) THEN (IF AlphaBit(data) THEN 5 ELSE 7)
    ELSE IF StoredCount(data) < 3 THEN 3 ELSE StoredCount(data)

RuleLy(data) ==
    IF LandscapeBit(data)
    THEN (IF StoredCount(data) < 3 THEN 3 ELSE StoredCount(data))
    ELSE (IF AlphaBit(data) THEN 5 ELSE 7)

\* N, the AC nibbles the decoded grids require, and the bytes they take.
NibblesNeeded(data) ==
    Cardinality(RuleSet(RuleLx(data), RuleLy(data)))
    + 2 * Cardinality(RuleSet(3, 3))
    + (IF AlphaBit(data) THEN Cardinality(RuleSet(5, 5)) ELSE 0)

BytesNeeded(data) ==
    (IF AlphaBit(data) THEN 6 ELSE 5) + (NibblesNeeded(data) + 1) \div 2

InvalidByRule(data) ==
    \/ Len(data) < 5
    \/ AlphaBit(data) /\ Len(data) < 6
    \/ Len(data) < BytesNeeded(data)

\* A decoder has just returned.
Decoded == pc = "decoded"

\* C1: Decode and Hash.Decode return ErrInvalidHash exactly when the array
\* has fewer than 5 bytes, or the HasAlpha bit is set and it has fewer than
\* 6, or it has fewer than start + ceil(N/2) bytes, N the AC nibbles the
\* decoded grids require; in every other case they return no error.
C1_InvalidExactly ==
    Decoded => (dec.err <=> InvalidByRule(hash))

\* C1 witness: a decoder refused an array with its header and alpha byte in
\* place for the nibbles it lacks, one byte short.
C1_Witness ==
    /\ Decoded
    /\ dec.err
    /\ Len(hash) >= 6
    /\ AlphaBit(hash)
    /\ Len(hash) = BytesNeeded(hash) - 1

\* C2: decoding the bytes Encode produced never fails, and the grid the
\* decoder derives requires no more AC nibbles than Encode wrote.
C2_EncodeThenDecode ==
    (Decoded /\ enc.op = "Encode" /\ Len(hash) = enc.hashSize)
        => /\ ~dec.err
           /\ Len(dec.reads) <= enc.nbAC
           /\ NibblesNeeded(hash) <= enc.nbAC

\* C2 witness: a landscape image with alpha whose height is below a third
\* of its width was encoded and decoded.
C2_Witness ==
    /\ Decoded
    /\ enc.op = "Encode"
    /\ Len(hash) = enc.hashSize
    /\ ~dec.err
    /\ enc.hasAlpha
    /\ img.w > 3 * img.h

\* C3: Encode sets the HasAlpha bit exactly when some pixel has alpha below
\* 255, that is when the alpha values sum to less than 255 per pixel.
SomeClearPixel == \E i \in 1..Len(img.pix) : img.pix[i][4] < 255

AlphaSum == Sum([i \in 1..Len(img.pix) |-> img.pix[i][4]], 1, Len(img.pix))

C3_AlphaFlag ==
    (pc = "encoded" /\ enc.op = "Encode")
        => /\ AlphaBit(hash) <=> SomeClearPixel
           /\ AlphaBit(hash) <=> AlphaSum < 255 * Len(img.pix)
           /\ enc.hasAlpha <=> AlphaBit(hash)

\* C3 witness: an image of several pixels, one of them clear, was encoded
\* with the bit set.
C3_Witness ==
    /\ pc = "encoded"
    /\ enc.op = "Encode"
    /\ img.pat = 3
    /\ Len(img.pix) > 1
    /\ AlphaBit(hash)

\* C4: an encoding never fails: the array has 5 + (1 with alpha) +
\* ceil(N/2) bytes, N the sum of the AC sequence lengths of the channels
\* written, and the write of nibble idx, for every idx in 0..N-1, goes to
\* byte start + idx/2 inside the array.
ChannelLengths ==
    IF enc.op = "Encode"
    THEN Len(enc.lTerms) + Len(enc.pTerms) + Len(enc.qTerms)
         + (IF enc.hasAlpha THEN Len(enc.aTerms) ELSE 0)
    ELSE Len(h.LAC) + Len(h.PAC) + Len(h.QAC)
         + (IF h.HasAlpha THEN Len(h.AAC) ELSE 0)

C4_EncodeTotal ==
    (pc = "encoded" /\ enc.op \in {"Encode", "HashEncode"})
        => LET alpha == IF enc.op = "Encode" THEN enc.hasAlpha ELSE h.HasAlpha
               start == IF alpha THEN 6 ELSE 5
               N == ChannelLengths
           IN  /\ ~enc.panic
               /\ Len(hash) = start + (N + 1) \div 2
               /\ Len(enc.writes) = N
               /\ \A k \in 1..N :
                     /\ enc.writes[k][1] = start + (k - 1) \div 2
                     /\ enc.writes[k][1] < Len(hash)

\* C4 witness: a 1 x 1 image was encoded, with an odd number of AC values.
C4_Witness ==
    /\ pc = "encoded"
    /\ enc.op = "Encode"
    /\ img.w = 1
    /\ img.h = 1
    /\ enc.nbAC % 2 = 1
    /\ ~enc.panic

\* The integer nearest to m * x for a rational x = <<n, d>> in [0, 1], a
\* half going up.
Quant(x, m) ==
    CHOOSE q \in 0..m :
        /\ 2 * x[2] * q - x[2] <= 2 * m * x[1]
        /\ 2 * m * x[1] < 2 * x[2] * q + x[2]

\* The integer nearest to 31.5 + 31.5 * x for x in [-1, 1].
QuantSigned(x) ==
    CHOOSE q \in 0..63 :
        /\ 2 * x[2] * q - x[2] <= 63 * (x[1] + x[2])
        /\ 63 * (x[1] + x[2]) < 2 * x[2] * q + x[2]

\* Equality of rationals <<n, d>>.
REq(x, y) == x[1] * y[2] = y[1] * x[2]

\* The header words of a byte array, little-endian.
Word24(data) == data[1] + 256 * data[2] + 65536 * data[3]

Word16(data) == data[4] + 256 * data[5]

\* The layout of the fields of a Hash hh in the bytes data.
HeaderLayout(hh, data) ==
    /\ Word24(data) = Quant(hh.LDC, 63)
                      + 64 * QuantSigned(hh.PDC)
                      + 4096 * QuantSigned(hh.QDC)
                      + 262144 * Quant(hh.LScale, 31)
                      + (IF hh.HasAlpha THEN 8388608 ELSE 0)
    /\ Word16(data) = (IF hh.IsLandscape THEN hh.Ly ELSE hh.Lx)
                      + 8 * Quant(hh.PScale, 63)
                      + 512 * Quant(hh.QScale, 63)
                      + (IF hh.IsLandscape THEN 32768 ELSE 0)
    /\ hh.HasAlpha => data[6] = Quant(hh.ADC, 15) + 16 * Quant(hh.AScale, 15)

\* The fields a decoder recovers from the header of a Hash h0: the
\* quantized values, and the flags as they were.
HeaderRecovered(h0, h1) ==
    /\ REq(h1.LDC, <<Quant(h0.LDC, 63), 63>>)
    /\ REq(h1.PDC, <<2 * QuantSigned(h0.PDC) - 63, 63>>)
    /\ REq(h1.QDC, <<2 * QuantSigned(h0.QDC) - 63, 63>>)
    /\ REq(h1.LScale, <<Quant(h0.LScale, 31), 31>>)
    /\ REq(h1.PScale, <<Quant(h0.PScale, 63), 63>>)
    /\ REq(h1.QScale, <<Quant(h0.QScale, 63), 63>>)
    /\ h1.HasAlpha = h0.HasAlpha
    /\ h1.IsLandscape = h0.IsLandscape
    /\ h0.HasAlpha => /\ REq(h1.ADC, <<Quant(h0.ADC, 15), 15>>)
                      /\ REq(h1.AScale, <<Quant(h0.AScale, 15), 15>>)
    /\ LET count == IF h0.IsLandscape THEN h0.Ly ELSE h0.Lx
           back == IF h1.IsLandscape THEN h1.Ly ELSE h1.Lx
       IN  /\ count \in 0..7
           /\ back = IF count < 3 THEN 3 ELSE count

\* A Hash was encoded by Hash.Encode, and the whole of its bytes decoded by
\* Hash.Decode.
HashRoundTrip ==
    /\ Decoded
    /\ enc.op = "HashEncode"
    /\ dec.op = "HashDecode"
    /\ Len(hash) = enc.hashSize

\* C5: for a Hash with LDC, LScale, PScale, QScale, ADC, AScale in [0, 1],
\* PDC, QDC in [-1, 1] and Lcount in 0..7, Hash.Encode lays the quantized
\* fields out in the header bits without one reaching into another, and
\* Hash.Decode recovers each quantized value, both flags and the stored
\* count (clamped to at least 3).
C5_HeaderRoundTrip ==
    /\ (pc = "encoded" /\ enc.op = "HashEncode") => HeaderLayout(h, hash)
    /\ HashRoundTrip => /\ ~dec.err
                        /\ HeaderLayout(dec.h0, hash)
                        /\ HeaderRecovered(dec.h0, h)

\* C5 witness: a portrait Hash with alpha, a stored count below 3 and a
\* luminance DC of 5/126, which is half way between two steps, went through
\* the round trip.
C5_Witness ==
    /\ HashRoundTrip
    /\ dec.h0.HasAlpha
    /\ ~dec.h0.IsLandscape
    /\ dec.h0.Lx < 3
    /\ dec.h0.LDC = <<5, 126>>
    /\ REq(h.LDC, <<3, 63>>)

\* C6: for a byte array of at least 5 bytes the decoders set Lx to the
\* stored count clamped to at least 3 when IsLandscape is false, and Ly to
\* it when IsLandscape is true; the other dimension is 5 with alpha and 7
\* without.  One dimension is 5 or 7 and the other is in 3..7.
DecodedLx == IF dec.op = "Decode" THEN dec.loc.lx ELSE h.Lx

DecodedLy == IF dec.op = "Decode" THEN dec.loc.ly ELSE h.Ly

C6_LuminanceGrid ==
    (Decoded /\ Len(hash) >= 5)
        => LET count == IF StoredCount(hash) < 3 THEN 3 ELSE StoredCount(hash)
               limit == IF AlphaBit(hash) THEN 5 ELSE 7
           IN  /\ ~LandscapeBit(hash) => DecodedLx = count /\ DecodedLy = limit
               /\ LandscapeBit(hash) => DecodedLy = count /\ DecodedLx = limit
               /\ count \in 3..7
               /\ {DecodedLx, DecodedLy} \cap {5, 7} # {}
               /\ DecodedLx \in 3..7
               /\ DecodedLy \in 3..7

\* C6 witness: a landscape array with alpha and a stored count of 2 was
\* decoded without error.
C6_Witness ==
    /\ Decoded
    /\ ~dec.err
    /\ Len(hash) >= 5
    /\ LandscapeBit(hash)
    /\ AlphaBit(hash)
    /\ StoredCount(hash) = 2
    /\ DecodedLy = 3

\* The size rule: the larger of Lx and Ly gets baseSize (the height when
\* they are equal), the other one the integer nearest to baseSize times the
\* smaller over the larger, a half going up.
SizeByRule(s, lx, ly) ==
    LET big == Max(lx, ly)
        small == IF lx <= ly THEN lx ELSE ly
        other == CHOOSE r \in 0..s.baseSize :
                    /\ 2 * big * r - big <= 2 * s.baseSize * small
                    /\ 2 * s.baseSize * small < 2 * big * r + big
    IN  IF lx > ly
        THEN s.w = s.baseSize /\ s.h = other
        ELSE s.h = s.baseSize /\ s.w = other

\* C7: for Lx, Ly in 3..7 and baseSize >= 1, Hash.Size gives baseSize to
\* the larger dimension and round(baseSize * ratio) to the other, where the
\* ratio is the smaller over the larger; Decode sizes its image by the
\* same rule with the base 32.
C7_SizeRule ==
    /\ grid.hsize # NoSize =>
          /\ grid.hsize.baseSize >= 1
          /\ SizeByRule(grid.hsize, grid.nx, grid.ny)
    /\ grid.dsize # NoSize =>
          /\ grid.dsize.baseSize = 32
          /\ SizeByRule(grid.dsize, grid.nx, grid.ny)

\* C7 witness: Hash.Size was called on a Hash wider than high whose other
\* dimension falls half way between two integers.
C7_Witness ==
    /\ grid.hsize # NoSize
    /\ grid.nx > grid.ny
    /\ (2 * grid.hsize.baseSize * grid.ny) % (2 * grid.nx) = grid.nx
    /\ grid.hsize.w = grid.hsize.baseSize

\* C8 (refuted): a decoder that returns ErrInvalidHash leaves no partial
\* output: Decode returns no image, and Hash.Decode leaves its receiver as
\* it was before the call.
C8_NoPartialOutput ==
    (Decoded /\ dec.err)
        => /\ dec.op = "Decode" => dec.img = NoImage /\ dec.recon = <<>>
           /\ dec.op = "HashDecode" => h = dec.h0

\* The terms of a sequence of reads or accesses.
TermsOf(seq) == [k \in 1..Len(seq) |-> <<seq[k][Len(seq[k]) - 1], seq[k][Len(seq[k])]>>]

\* seq lists the terms of the inclusion rule for nx x ny once each, by
\* increasing cy and then increasing cx.
InRuleOrder(seq, nx, ny) ==
    /\ Len(seq) = Cardinality(RuleSet(nx, ny))
    /\ \A k \in 1..Len(seq) : seq[k] \in RuleSet(nx, ny)
    /\ \A k \in 1..(Len(seq) - 1) :
          \/ seq[k][2] < seq[k + 1][2]
          \/ seq[k][2] = seq[k + 1][2] /\ seq[k][1] < seq[k + 1][1]

\* The terms and the running index j of the accesses of a reconstruction
\* loop.
ReconTerms(seq) == [k \in 1..Len(seq) |-> <<seq[k][1], seq[k][2]>>]

\* C9: for nx, ny in 3..7 the loop of the encoder, the loop of the decoder
\* and the luminance loop of the reconstruction reach the same terms in the
\* same order, those with cx * ny < nx * (ny - cy) by rows, (0,0) left out;
\* the bounds cx < 3 - cy and cx < 5 - cy of the other reconstruction loops
\* give the terms of the rule for 3 x 3 and 5 x 5.
C9_SameTerms ==
    /\ grid.encode # None =>
          /\ InRuleOrder(grid.encode.terms, grid.nx, grid.ny)
          /\ Len(grid.encode.ac) = Len(grid.encode.terms)
    /\ grid.decode # None =>
          /\ ~grid.decode.err
          /\ InRuleOrder([k \in 1..Len(grid.decode.reads) |->
                            <<grid.decode.reads[k][4],
                              grid.decode.reads[k][5]>>],
                         grid.nx, grid.ny)
          /\ Len(grid.decode.ac) = Len(grid.decode.reads)
    /\ grid.recon # None =>
          /\ InRuleOrder(ReconTerms(grid.recon.L), grid.nx, grid.ny)
          /\ InRuleOrder(ReconTerms(grid.recon.PQ), 3, 3)
          /\ grid.recon.hasAlpha =>
                InRuleOrder(ReconTerms(grid.recon.A), 5, 5)
          /\ \A k \in 1..Len(grid.recon.L) : grid.recon.L[k][3] = k - 1
          /\ \A k \in 1..Len(grid.recon.PQ) : grid.recon.PQ[k][3] = k - 1
    /\ (grid.encode # None /\ grid.decode # None /\ grid.recon # None) =>
          /\ grid.encode.terms = ReconTerms(grid.recon.L)
          /\ Len(grid.decode.reads) = Len(grid.recon.L)
    /\ RuleSet(3, 3) = {t \in (0..2) \X (0..2) :
                           t # <<0, 0>> /\ t[1] < 3 - t[2]}
    /\ RuleSet(5, 5) = {t \in (0..4) \X (0..4) :
                           t # <<0, 0>> /\ t[1] < 5 - t[2]}

\* C9 witness: the three loops were run over a grid that is not square,
\* with alpha.
C9_Witness ==
    /\ grid.encode # None
    /\ grid.decode # None
    /\ grid.recon # None
    /\ grid.recon.hasAlpha
    /\ grid.nx = 7
    /\ grid.ny = 4
    /\ Len(grid.recon.L) = Len(grid.encode.terms)

\* The bytes of an encoder were decoded whole, without error.
RoundTrip ==
    /\ Decoded
    /\ enc.op \in {"Encode", "HashEncode"}
    /\ Len(hash) = enc.hashSize
    /\ ~dec.err

\* The nibble of the k-th AC value an encoder was given.
NibbleOf(k) == Quant(enc.acs[k], 15)

\* C10: the AC values are written as nibbles in the order L, P, Q, A: the
\* k-th value (from 0) goes to byte start + k/2, to the low nibble when k is
\* even and the high nibble when it is odd; the decoders read the same
\* nibbles back in the same order, and with an odd count the last high
\* nibble is 0.
C10_NibbleOrder ==
    RoundTrip =>
        LET N == enc.nbAC
            start == IF AlphaBit(hash) THEN 6 ELSE 5
        IN  /\ Len(enc.writes) = N
            /\ Len(dec.reads) = N
            /\ enc.op = "HashEncode" =>
                  enc.acs = dec.h0.LAC \o dec.h0.PAC \o dec.h0.QAC
                            \o (IF dec.h0.HasAlpha THEN dec.h0.AAC ELSE <<>>)
            /\ enc.op = "Encode" =>
                  TermsOf(dec.reads)
                     = enc.lTerms \o enc.pTerms \o enc.qTerms
                       \o (IF enc.hasAlpha THEN enc.aTerms ELSE <<>>)
            /\ \A k \in 1..N :
                  /\ enc.writes[k] = <<start + (k - 1) \div 2,
                                       4 * ((k - 1) % 2), NibbleOf(k)>>
                  /\ dec.reads[k][1] = start + (k - 1) \div 2
                  /\ dec.reads[k][2] = 4 * ((k - 1) % 2)
                  /\ dec.reads[k][3] = NibbleOf(k)
            /\ \A b \in (start + 1)..Len(hash) :
                  hash[b] = NibbleOf(2 * (b - start) - 1)
                            + 16 * (IF 2 * (b - start) <= N
                                    THEN NibbleOf(2 * (b - start)) ELSE 0)

\* C10 witness: a Hash with alpha and an odd number of AC values went
\* through Hash.Encode and Hash.Decode, and its last value is not zero.
C10_Witness ==
    /\ RoundTrip
    /\ enc.op = "HashEncode"
    /\ dec.op = "HashDecode"
    /\ AlphaBit(hash)
    /\ enc.nbAC % 2 = 1
    /\ hash[Len(hash)] \in 1..15

\* A decoder has just returned without error.
Accepted == Decoded /\ ~dec.err

\* What a decoder left: the receiver's fields after Hash.Decode, the local
\* variables of Decode, and the saturation factor that was in force.
Out ==
    IF dec.op = "Decode"
    THEN [lDC |-> dec.loc.lDC, pDC |-> dec.loc.pDC, qDC |-> dec.loc.qDC,
          aDC |-> dec.loc.aDC, lScale |-> dec.loc.lScale,
          pScale |-> dec.loc.pScale, qScale |-> dec.loc.qScale,
          aScale |-> dec.loc.aScale, lAC |-> dec.loc.lAC,
          pAC |-> dec.loc.pAC, qAC |-> dec.loc.qAC, aAC |-> dec.loc.aAC,
          boost |-> <<5, 4>>]
    ELSE [lDC |-> h.LDC, pDC |-> h.PDC, qDC |-> h.QDC, aDC |-> h.ADC,
          lScale |-> h.LScale, pScale |-> h.PScale, qScale |-> h.QScale,
          aScale |-> h.AScale, lAC |-> h.LAC, pAC |-> h.PAC, qAC |-> h.QAC,
          aAC |-> IF h.HasAlpha THEN h.AAC ELSE <<>>,
          boost |-> dec.boost]

\* The k-th nibble (from 1) after the header of a byte array.
StoredNibble(data, k) ==
    LET b == data[(IF AlphaBit(data) THEN 6 ELSE 5) + (k + 1) \div 2]
    IN  IF k % 2 = 1 THEN b % 16 ELSE b \div 16

\* The scales and DC values a byte array stores, as fractions.
StoredLScale(data) == <<(Word24(data) \div 262144) % 32, 31>>

StoredPScale(data) == <<(Word16(data) \div 8) % 64, 63>>

StoredQScale(data) == <<(Word16(data) \div 512) % 64, 63>>

StoredAScale(data) == IF AlphaBit(data) THEN <<data[6] \div 16, 15>> ELSE Zero

StoredLDC(data) == <<Word24(data) % 64, 63>>

StoredPDC(data) == <<2 * ((Word24(data) \div 64) % 64) - 63, 63>>

StoredQDC(data) == <<2 * ((Word24(data) \div 4096) % 64) - 63, 63>>

StoredADC(data) == IF AlphaBit(data) THEN <<data[6] % 16, 15>> ELSE One

\* (n/7.5 - 1) * scale * factor, as a fraction.
Scaled(n, scale, factor) ==
    <<(2 * n - 15) * scale[1] * factor[1], 15 * scale[2] * factor[2]>>

\* ac holds, for the nibbles from + 1 .. from + count of the array, the
\* value (n/7.5 - 1) * scale * factor.
ChannelScaled(ac, from, count, scale, factor) ==
    /\ Len(ac) = count
    /\ \A k \in 1..count :
          REq(ac[k], Scaled(StoredNibble(hash, from + k), scale, factor))

\* C11: on decode a nibble n of the L or A channel becomes
\* (n/7.5 - 1) * stored scale, and a nibble n of the P or Q channel becomes
\* (n/7.5 - 1) * stored scale * saturation boost (1.25 in Decode, the
\* configured factor in Hash.Decode); the boost reaches no L or A value, no
\* DC value and no scale field.
C11_BoostChromaOnly ==
    Accepted =>
        LET nL == Cardinality(RuleSet(RuleLx(hash), RuleLy(hash)))
            nC == Cardinality(RuleSet(3, 3))
            nA == IF AlphaBit(hash) THEN Cardinality(RuleSet(5, 5)) ELSE 0
        IN  /\ ChannelScaled(Out.lAC, 0, nL, StoredLScale(hash), One)
            /\ ChannelScaled(Out.pAC, nL, nC, StoredPScale(hash), Out.boost)
            /\ ChannelScaled(Out.qAC, nL + nC, nC, StoredQScale(hash),
                             Out.boost)
            /\ ChannelScaled(Out.aAC, nL + 2 * nC, nA, StoredAScale(hash),
                             One)
            /\ REq(Out.lScale, StoredLScale(hash))
            /\ REq(Out.pScale, StoredPScale(hash))
            /\ REq(Out.qScale, StoredQScale(hash))
            /\ REq(Out.aScale, StoredAScale(hash))
            /\ REq(Out.lDC, StoredLDC(hash))
            /\ REq(Out.pDC, StoredPDC(hash))
            /\ REq(Out.qDC, StoredQDC(hash))
            /\ REq(Out.aDC, StoredADC(hash))
            /\ dec.op = "Decode" => Out.boost = <<5, 4>>

\* C11 witness: Hash.Decode with the factor 1.25 accepted an array with
\* alpha whose four stored scales are not zero, so that the boost shows in
\* the P and Q values and would show in the others.
C11_Witness ==
    /\ Accepted
    /\ dec.op = "HashDecode"
    /\ dec.boost = <<5, 4>>
    /\ AlphaBit(hash)
    /\ StoredLScale(hash)[1] > 0
    /\ StoredPScale(hash)[1] > 0
    /\ StoredQScale(hash)[1] > 0
    /\ StoredAScale(hash)[1] > 0
    /\ ~REq(h.PAC[1], Scaled(StoredNibble(hash, Len(h.LAC) + 1),
                             StoredPScale(hash), One))

\* A pixel was converted.
Converted == pc = "converted"

\* B is x cut off to an integer, for a fraction x >= 0.
IsTrunc(B, x) == B * x[2] <= x[1] /\ x[1] < (B + 1) * x[2]

\* B is the integer nearest to x, for a fraction x >= 0.
IsRound(B, x) ==
    2 * B * x[2] - x[2] <= 2 * x[1] /\ 2 * x[1] < 2 * B * x[2] + x[2]

\* x clamped to [0, 1].
Clamped(x) == IF x[1] < 0 THEN Zero ELSE IF x[1] > x[2] THEN One ELSE x

\* c * 255 * af
Times255(c, af) == <<255 * c[1] * af[1], c[2] * af[2]>>

\* The colour bytes are the clamped channel values times 255 * af cut off
\* to an integer, af the clamped alpha, and the four bytes are in 0..255.
ColourBytes ==
    LET af == Clamped(dec.a)
    IN  /\ IsTrunc(dec.data[1], Times255(Clamped(dec.r), af))
        /\ IsTrunc(dec.data[2], Times255(Clamped(dec.g), af))
        /\ IsTrunc(dec.data[3], Times255(Clamped(dec.b), af))
        /\ \A i \in 1..4 : dec.data[i] \in 0..255

\* C12 as stated: the alpha byte is round(af * 255), each colour byte is the
\* clamped channel value times 255 * af cut off to an integer, and the four
\* bytes are in 0..255.
C12_AlphaRounded ==
    Converted =>
        /\ IsRound(dec.data[4], Times255(One, Clamped(dec.a)))
        /\ ColourBytes

\* C12 amended: the alpha byte is af * 255 cut off to an integer, like the
\* colour bytes; each colour byte is the clamped channel value times
\* 255 * af cut off to an integer, and the four bytes are in 0..255.
C12_AlphaTruncated ==
    Converted =>
        /\ IsTrunc(dec.data[4], Times255(One, Clamped(dec.a)))
        /\ ColourBytes

\* C12 witness: a pixel whose alpha is strictly inside (0, 1) with
\* af * 255 half an integer or more above the byte written, whose red value
\* is above 1 and whose blue value is below 0.
C12_Witness ==
    /\ Converted
    /\ dec.a[1] > 0
    /\ dec.a[1] < dec.a[2]
    /\ 2 * 255 * dec.a[1] >= (2 * dec.data[4] + 1) * dec.a[2]
    /\ dec.r[1] > dec.r[2]
    /\ dec.b[1] < 0
    /\ dec.data[1] > 0

\* The length the cosine tables must have by the rule: the larger of the
\* luminance dimension and 3, or 5 with alpha.
TableLen(l) ==
    LET base == IF AlphaBit(hash) THEN 5 ELSE 3
    IN  IF l > base THEN l ELSE base

\* Every access <<cx, cy, j>> of a loop is inside the tables fx and fy and
\* inside each of the AC sequences the loop reads.
InsideBounds(loop, nfx, nfy, acs) ==
    \A k \in 1..Len(loop) :
        /\ loop[k][1] \in 0..(nfx - 1)
        /\ loop[k][2] \in 0..(nfy - 1)
        /\ \A i \in 1..Len(acs) : loop[k][3] \in 0..(Len(acs[i]) - 1)

\* C13: for every byte array that decoding accepts, crafted ones included,
\* reconstruction stays inside its slices: fx has length max(Lx, 3 or 5
\* with alpha) and fy has length max(Ly, 3 or 5 with alpha), in Decode and
\* in Hash.coefficients; every cx is below the length of fx, every cy below
\* that of fy, and the index j into the L, P, Q and A sequences stays below
\* the length of each.
C13_ReconInBounds ==
    /\ (Accepted /\ dec.op = "Decode") =>
          /\ dec.recon.nfx = TableLen(RuleLx(hash))
          /\ dec.recon.nfy = TableLen(RuleLy(hash))
          /\ Len(dec.recon.L) > 0
          /\ Len(dec.recon.PQ) > 0
          /\ AlphaBit(hash) <=> Len(dec.recon.A) > 0
          /\ InsideBounds(dec.recon.L, dec.recon.nfx, dec.recon.nfy,
                          <<dec.loc.lAC>>)
          /\ InsideBounds(dec.recon.PQ, dec.recon.nfx, dec.recon.nfy,
                          <<dec.loc.pAC, dec.loc.qAC>>)
          /\ InsideBounds(dec.recon.A, dec.recon.nfx, dec.recon.nfy,
                          <<dec.loc.aAC>>)
    /\ pc = "sized" =>
          /\ size.fx = TableLen(RuleLx(hash))
          /\ size.fy = TableLen(RuleLy(hash))
          /\ size.fx >= h.Lx
          /\ size.fy >= h.Ly

\* C13 witness: Decode accepted an array no encoder produces, with HasAlpha
\* set and a stored count of 7, and its luminance loop reads fx at cx = 6,
\* past what a table of length 5 holds.
C13_Witness ==
    /\ Accepted
    /\ dec.op = "Decode"
    /\ enc.op = "Receive"
    /\ AlphaBit(hash)
    /\ ~LandscapeBit(hash)
    /\ StoredCount(hash) = 7
    /\ \E k \in 1..Len(dec.recon.L) : dec.recon.L[k][1] = 6

====
